---- MODULE Spec2Model ----
(***************************************************************************)
(* Model of the data-refresh lifecycle of the metrics dashboard             *)
(* (src/src/App.jsx): the App component's state hooks, the effect that      *)
(* fetches the seven endpoints and arms the auto-refresh timer, the effect  *)
(* cleanup, and the render guards of the loader, error card and content.    *)
(***************************************************************************)
EXTENDS Integers, Sequences, FiniteSets, TLC

\* Bounds of the model.
MaxCycles == 3      \* total number of calls of run() in one behaviour
MaxFaults == 1      \* cycles of one behaviour that meet a failing or malformed answer

\* The options of the two <select> elements.
DaysOptions == {7, 30, 90, 180}
RefreshOptions == {0, 5, 15, 60}

\* The options the user picks from in the model.
DaysChoices == {7, 30}
RefreshChoices == {0, 5, 15}

\* Positions of the seven requests in the Promise.all array.
Endpoints == 1..7
ListEndpoints == 2..7

VARIABLES
  urlSet,        \* whether VITE_ANALYTICS_URL is configured (baseUrl() non-empty)
  phase,         \* "new" (constructed, effect not yet run), "mounted", "unmounted"
  days, refreshSec, loading, error, lastUpdated,
  view,          \* overview, pageViewsSeries, topEvents, topPages, topReferrers, topOutbound, recentEvents
  effs,          \* one record per run of the effect: its closure (mounted, days, controller)
  cycles,        \* one record per call of run(), in order of issuance
  timers,        \* the intervals armed with setInterval and not yet cleared
  faults,        \* environment: cycles so far that met a failing or malformed response
  last           \* history: the completion of run() or the re-selection that produced this state

vars == <<urlSet, phase, days, refreshSec, loading, error, lastUpdated, view, effs, cycles, timers, faults, last>>

\* ---------------------------------------------------------------- values

\* error === null
NoError == "null"

\* What one endpoint answers: a 2xx body that carries the expected data, a 2xx
\* body {} (expected field missing), a 2xx body null, a non-2xx status, or a
\* transport failure.
Kinds == {"data", "empty", "null", "status", "transport"}

AllData == [k \in Endpoints |-> "data"]

\* The endpoints whose answer may deviate from the expected data: the
\* overview, the first list and the last list.
Sampled == {1, 2, 7}

\* The answers of one cycle: all as expected, one sampled endpoint deviating,
\* every body {}, or a non-2xx status next to a null body.
Responses ==
  {AllData}
    \cup {[AllData EXCEPT ![k] = x] : k \in Sampled, x \in Kinds}
    \cup {[k \in Endpoints |-> "empty"]}
    \cup {[AllData EXCEPT ![1] = "status", ![2] = "null"]}

Fulfilled == [name |-> "fulfilled", message |-> ""]
AbortError == [name |-> "AbortError", message |-> "The operation was aborted"]
StatusError == [name |-> "Error", message |-> "500"]
TransportError == [name |-> "TypeError", message |-> "Failed to fetch"]
NullError == [name |-> "TypeError", message |-> "Cannot read properties of null"]

\* const url = baseUrl(); a falsy url means no analytics server is configured.
baseUrl == IF urlSet THEN "url" ELSE ""

\* Variant of fetchJson without the `if (!res.ok) throw` line: the body of a
\* non-2xx answer is parsed like any other.
fetchJsonNoOkCheck(kind, interrupted) ==
  IF interrupted THEN AbortError
  ELSE IF kind = "transport" THEN TransportError
  ELSE Fulfilled

\* fetchJson(url, signal): the exception it throws, or Fulfilled when it
\* returns the parsed body.
fetchJson(kind, interrupted) ==
  IF interrupted THEN AbortError
  ELSE IF kind = "status" THEN StatusError
  ELSE IF kind = "transport" THEN TransportError
  ELSE Fulfilled

\* Some request of the cycle gets a non-2xx status or a transport failure.
Failing(r) == \E k \in Endpoints : r[k] \in {"status", "transport"}

\* await Promise.all([...]): the possible results of the await. It rejects
\* with the rejection of one of the requests, or is fulfilled when all seven
\* are. An aborted signal may or may not interrupt the transfers.
PromiseAll(r, aborted) ==
  LET rejected == {fetchJson(r[k], FALSE) : k \in Endpoints} \ {Fulfilled}
      plain == IF rejected = {} THEN {Fulfilled} ELSE rejected
  IN  IF aborted THEN plain \cup {fetchJson(r[1], TRUE)} ELSE plain

\* The initial values of the seven useState hooks of the view.
DefaultView == [k \in Endpoints |-> [src |-> 0, val |-> IF k = 1 THEN "null" ELSE "empty"]]

\* Array.isArray(json.field) ? json.field : []
ArrayOrEmpty(kind) == IF kind = "data" THEN "data" ELSE "empty"

\* The value the k-th setter is called with by cycle c.
Committed(c, k, kind) ==
  [src |-> c, val |-> IF k = 1 THEN kind ELSE ArrayOrEmpty(kind)]

\* The first list endpoint whose body is null: reading its field throws.
\* 8 when there is none.
FirstThrow(r) ==
  LET bad == {k \in ListEndpoints : r[k] = "null"}
  IN  IF bad = {} THEN 8 ELSE CHOOSE k \in bad : \A j \in bad : k <= j

\* e?.message || 'Error cargando métricas'
ErrorMessage(e) == IF e.message = "" THEN "Error cargando metricas" ELSE e.message

\* ---------------------------------------------------------------- state

Cur ==
  [days |-> days, refreshSec |-> refreshSec, loading |-> loading, error |-> error,
   lastUpdated |-> lastUpdated, view |-> view, effs |-> effs, cycles |-> cycles,
   timers |-> timers]

Becomes(s) ==
  /\ days' = s.days
  /\ refreshSec' = s.refreshSec
  /\ loading' = s.loading
  /\ error' = s.error
  /\ lastUpdated' = s.lastUpdated
  /\ view' = s.view
  /\ effs' = s.effs
  /\ cycles' = s.cycles
  /\ timers' = s.timers

\* The closure variable `mounted` of the effect run that issued cycle c.
Mounted(s, c) == s.effs[s.cycles[c].eff].mounted

\* ---------------------------------------------------------------- run()

\* Variant of the start of run() without the setLoading(true) and
\* setError(null) of a foreground call.
runStartNoLoading(s, e, isBackground) ==
  [s EXCEPT !.cycles = Append(@, [eff |-> e, bg |-> isBackground,
                                  aborted |-> FALSE, done |-> FALSE])]

\* Variant of the start of run() that ignores isBackground.
runStartAlwaysLoading(s, e, isBackground) ==
  [s EXCEPT !.loading = TRUE, !.error = NoError,
            !.cycles = Append(@, [eff |-> e, bg |-> isBackground,
                                  aborted |-> FALSE, done |-> FALSE])]

\* run(signal, {isBackground}) up to the await: the loading flag of a
\* foreground call and the seven requests sharing one signal.
runStart(s, e, isBackground) ==
  LET s1 == IF ~isBackground THEN [s EXCEPT !.loading = TRUE, !.error = NoError] ELSE s
  IN  [s1 EXCEPT !.cycles = Append(@, [eff |-> e, bg |-> isBackground,
                                       aborted |-> FALSE, done |-> FALSE])]

\* Variant of the try block without the `if (!mounted) return` after the await.
runTryNoGuard(s, c, r) ==
  LET n == FirstThrow(r)
      v == [k \in Endpoints |-> IF k < n THEN Committed(c, k, r[k]) ELSE s.view[k]]
  IN  IF n <= 7
      THEN [state |-> [s EXCEPT !.view = v], thrown |-> NullError]
      ELSE [state |-> [s EXCEPT !.view = v, !.lastUpdated = c, !.error = NoError],
            thrown |-> Fulfilled]

\* The try block after the await was fulfilled.
runTry(s, c, r) ==
  IF ~Mounted(s, c) THEN [state |-> s, thrown |-> Fulfilled]
  ELSE LET n == FirstThrow(r)
           v == [k \in Endpoints |-> IF k < n THEN Committed(c, k, r[k]) ELSE s.view[k]]
       IN  IF n <= 7
           THEN [state |-> [s EXCEPT !.view = v], thrown |-> NullError]
           ELSE [state |-> [s EXCEPT !.view = v, !.lastUpdated = c, !.error = NoError],
                 thrown |-> Fulfilled]

\* Variant of the catch block that reports every exception.
runCatchNoGuard(s, c, e) == [s EXCEPT !.error = ErrorMessage(e)]

\* The catch block.
runCatch(s, c, e) ==
  IF e.name = "AbortError" THEN s
  ELSE IF ~Mounted(s, c) THEN s
  ELSE [s EXCEPT !.error = ErrorMessage(e)]

\* Variant of run() without the finally block.
runFinallyNoClear(s, c) == s

\* The finally block.
runFinally(s, c) ==
  IF ~Mounted(s, c) THEN s ELSE [s EXCEPT !.loading = FALSE]

\* How cycle c ended, given the result x of its await.
Outcome(s, c, r, x) ==
  IF x.name = "AbortError" THEN "cancelled"
  ELSE IF x # Fulfilled THEN "failed"
  ELSE IF ~Mounted(s, c) THEN "discarded"
  ELSE IF FirstThrow(r) <= 7 THEN "threw"
  ELSE "committed"

\* run() from the await on: try, catch, finally.
runSettle(s, c, r, x) ==
  LET t  == IF x = Fulfilled THEN runTry(s, c, r)
            ELSE [state |-> s, thrown |-> x]
      s2 == IF t.thrown = Fulfilled THEN t.state ELSE runCatch(t.state, c, t.thrown)
      s3 == runFinally(s2, c)
  IN  [s3 EXCEPT !.cycles[c].done = TRUE]

\* ---------------------------------------------------------------- effect

\* Variant of the effect body without the `if (refreshSec > 0)` around setInterval.
useEffectAlwaysArms(s) ==
  IF baseUrl = ""
  THEN [s EXCEPT !.loading = FALSE, !.error = "Configura VITE_ANALYTICS_URL"]
  ELSE LET e  == Len(s.effs) + 1
           s1 == [s EXCEPT !.effs = Append(@, [mounted |-> TRUE, days |-> s.days,
                                               controller |-> Len(s.cycles) + 1])]
           s2 == runStart(s1, e, FALSE)
       IN  [s2 EXCEPT !.timers = @ \cup {[eff |-> e, period |-> s.refreshSec]}]

\* Variant of the effect body without the early return for a missing URL.
useEffectNoUrlCheck(s) ==
  LET e  == Len(s.effs) + 1
      s1 == [s EXCEPT !.effs = Append(@, [mounted |-> TRUE, days |-> s.days,
                                          controller |-> Len(s.cycles) + 1])]
      s2 == runStart(s1, e, FALSE)
  IN  IF s.refreshSec > 0
      THEN [s2 EXCEPT !.timers = @ \cup {[eff |-> e, period |-> s.refreshSec]}]
      ELSE s2

\* The body of the effect.
useEffect(s) ==
  IF baseUrl = ""
  THEN [s EXCEPT !.loading = FALSE, !.error = "Configura VITE_ANALYTICS_URL"]
  ELSE LET e  == Len(s.effs) + 1
           s1 == [s EXCEPT !.effs = Append(@, [mounted |-> TRUE, days |-> s.days,
                                               controller |-> Len(s.cycles) + 1])]
           s2 == runStart(s1, e, FALSE)
       IN  IF s.refreshSec > 0
           THEN [s2 EXCEPT !.timers = @ \cup {[eff |-> e, period |-> s.refreshSec]}]
           ELSE s2

\* Variant of the cleanup without the clearInterval line.
cleanupKeepsTimer(s) ==
  IF s.effs = <<>> THEN s
  ELSE LET e == Len(s.effs)
       IN  [s EXCEPT !.effs[e].mounted = FALSE,
                     !.cycles[s.effs[e].controller].aborted = TRUE]

\* Variant of the cleanup without the `mounted = false` line.
cleanupKeepsMounted(s) ==
  IF s.effs = <<>> THEN s
  ELSE LET e == Len(s.effs)
       IN  [s EXCEPT !.cycles[s.effs[e].controller].aborted = TRUE,
                     !.timers = {t \in @ : t.eff # e}]

\* The function the effect returns, run before the next effect and on unmount.
\* The effect returns nothing when no URL is configured.
cleanup(s) ==
  IF s.effs = <<>> THEN s
  ELSE LET e == Len(s.effs)
       IN  [s EXCEPT !.effs[e].mounted = FALSE,
                     !.cycles[s.effs[e].controller].aborted = TRUE,
                     !.timers = {t \in @ : t.eff # e}]

\* ---------------------------------------------------------------- actions

\* The value of `last` after a step that neither completes a cycle nor
\* re-selects the current value of a parameter.
NoEvent == [op |-> "other", cyc |-> 0, out |-> "none", fail |-> FALSE]

Init ==
  /\ urlSet \in BOOLEAN
  /\ phase = "new"
  /\ days = 30
  /\ refreshSec = 15
  /\ loading = TRUE
  /\ error = NoError
  /\ lastUpdated = 0
  /\ view = DefaultView
  /\ effs = <<>>
  /\ cycles = <<>>
  /\ timers = {}
  /\ faults = 0
  /\ last = NoEvent

\* First render committed: the effect runs.
Mount ==
  /\ phase = "new"
  /\ phase' = "mounted"
  /\ Becomes(useEffect(Cur))
  /\ last' = NoEvent
  /\ UNCHANGED <<urlSet, faults>>

\* A state change that re-runs the effect: the old cleanup, then the body.
Rerun(s) == useEffect(cleanup(s))

\* onChange of the Período select.
setDays(d) ==
  /\ phase = "mounted"
  /\ (d # days /\ urlSet) => Len(cycles) < MaxCycles
  /\ Becomes(IF d = days THEN Cur ELSE Rerun([Cur EXCEPT !.days = d]))
  /\ last' = IF d = days THEN [NoEvent EXCEPT !.op = "same"] ELSE NoEvent
  /\ UNCHANGED <<urlSet, phase, faults>>

\* onChange of the Actualización automática select.
setRefreshSec(x) ==
  /\ phase = "mounted"
  /\ (x # refreshSec /\ urlSet) => Len(cycles) < MaxCycles
  /\ Becomes(IF x = refreshSec THEN Cur ELSE Rerun([Cur EXCEPT !.refreshSec = x]))
  /\ last' = IF x = refreshSec THEN [NoEvent EXCEPT !.op = "same"] ELSE NoEvent
  /\ UNCHANGED <<urlSet, phase, faults>>

\* The setInterval callback of an armed timer fires.
Tick(t) ==
  /\ t \in timers
  /\ Len(cycles) < MaxCycles
  /\ Becomes(runStart(Cur, t.eff, TRUE))
  /\ last' = NoEvent
  /\ UNCHANGED <<urlSet, phase, faults>>

\* The await of cycle c ends and the rest of run() executes.
Settle(c, r, x) ==
  /\ c \in 1..Len(cycles)
  /\ ~cycles[c].done
  /\ x \in PromiseAll(r, cycles[c].aborted)
  /\ r # AllData => faults < MaxFaults
  /\ faults' = IF r # AllData THEN faults + 1 ELSE faults
  /\ Becomes(runSettle(Cur, c, r, x))
  /\ last' = [op |-> "settle", cyc |-> c, out |-> Outcome(Cur, c, r, x), fail |-> Failing(r)]
  /\ UNCHANGED <<urlSet, phase>>

\* The component is removed: the cleanup of the last effect runs.
Unmount ==
  /\ phase = "mounted"
  /\ phase' = "unmounted"
  /\ Becomes(cleanup(Cur))
  /\ last' = NoEvent
  /\ UNCHANGED <<urlSet, faults>>

Next ==
  \/ Mount
  \/ \E d \in DaysChoices : setDays(d)
  \/ \E x \in RefreshChoices : setRefreshSec(x)
  \/ \E t \in timers : Tick(t)
  \/ \E c \in 1..Len(cycles) : \E r \in (IF faults < MaxFaults THEN Responses ELSE {AllData}) :
       \E x \in PromiseAll(r, cycles[c].aborted) : Settle(c, r, x)
  \/ Unmount

Spec == Init /\ [][Next]_vars

\* Some request is still awaited.
InFlight == \E c \in 1..Len(cycles) : ~cycles[c].done

\* A step in which the Promise.all of some cycle settles.
SettleStep == \E c \in 1..Len(cycles) : ~cycles[c].done /\ cycles'[c].done

\* The effect of a rendered component runs, and every request that was
\* issued is eventually answered or fails: weak fairness of the settlements,
\* written out (a settlement is enabled exactly when InFlight holds, and the
\* steps of Next that settle a cycle are exactly the SettleStep steps).
LiveSpec ==
  /\ Init /\ [][Next]_vars
  /\ WF_vars(Mount)
  /\ ([]<>~InFlight \/ []<><<SettleStep>>_vars)

\* ---------------------------------------------------------------- render

\* {loading && <loader>}
LoaderVisible == loading
\* {!loading && error && <error card>}
ErrorVisible == ~loading /\ error # NoError
\* {!loading && !error && <content>}
ContentArea == ~loading /\ error = NoError

TypeOK ==
  /\ days \in DaysOptions /\ refreshSec \in RefreshOptions
  /\ loading \in BOOLEAN
  /\ Len(cycles) <= MaxCycles

\* ---------------------------------------------------------------- claims

\* The effect run that issued cycle c has not been cleaned up.
Live(c) == effs[cycles[c].eff].mounted

\* The four pieces of state a cycle may write.
shown == <<view, error, lastUpdated, loading>>

\* LoadStatus of the spec, derived from the loading flag and the error.
LoadStatus ==
  IF loading THEN "Loading"
  ELSE IF error # NoError THEN "Error"
  ELSE IF lastUpdated = 0 THEN "Idle" ELSE "Ready"

\* C1 (as claimed): a cycle that completes after a cycle issued later than
\* itself has completed commits nothing to the view state.
C1_StaleSuppression ==
  [][(/\ last'.op = "settle"
      /\ \E b \in (last'.cyc + 1)..Len(cycles) : cycles[b].done)
     => (view' = view /\ lastUpdated' = lastUpdated)]_vars

\* C2 (as claimed): in every state the seven fields of the view state come
\* from one and the same cycle, or are all at their defaults.
C2_AtomicCommit == \A j, k \in Endpoints : view[j].src = view[k].src

\* C3: a cycle whose effect has been cleaned up changes none of the view
\* state, error, loading and lastUpdated when it completes, whether it
\* succeeds, fails or is aborted, foreground or background.
C3_TeardownSafety ==
  [][(last'.op = "settle" /\ ~Live(last'.cyc)) => UNCHANGED shown]_vars

\* A cycle issued before a teardown received seven good answers after it.
C3_Witness ==
  /\ last.op = "settle" /\ last.out = "discarded"
  /\ ~Live(last.cyc)
  /\ \E c \in 1..Len(cycles) : c # last.cyc /\ cycles[c].done /\ view[1].src = c

\* C4 (as claimed): when a background cycle of the current effect fails with
\* an error that is not a cancellation while the state is Ready, the status
\* becomes Error and the view state and lastUpdated keep their values.
C4_BackgroundFailureKeepsData ==
  [][(/\ last'.op = "settle" /\ last'.out \in {"failed", "threw"}
      /\ cycles[last'.cyc].bg /\ Live(last'.cyc)
      /\ LoadStatus = "Ready")
     => (/\ LoadStatus' = "Error"
         /\ view' = view /\ lastUpdated' = lastUpdated)]_vars

\* C5 (as claimed): after a background cycle failed while committed data
\* exists, the content area is rendered together with the error card.
C5_StaleDataVisible ==
  (/\ last.op = "settle" /\ last.out = "failed"
   /\ cycles[last.cyc].bg /\ Live(last.cyc)
   /\ lastUpdated # 0 /\ ~loading /\ error # NoError)
  => (ErrorVisible /\ ContentArea)

\* C6: when a request of a cycle of the current effect gets a non-2xx status
\* or a transport failure, whichever endpoint it is, the cycle writes none of
\* the seven fields and the status becomes Error.
C6_FailFast ==
  [][(last'.op = "settle" /\ last'.fail /\ Live(last'.cyc))
     => (/\ view' = view /\ lastUpdated' = lastUpdated
         /\ LoadStatus' = "Error")]_vars

\* A background cycle of the current effect met a failing endpoint after a commit.
C6_Witness ==
  /\ last.op = "settle" /\ last.fail /\ Live(last.cyc)
  /\ lastUpdated # 0 /\ error # NoError

\* C7: selecting the current value of days or refreshSec issues no cycle,
\* aborts nothing and leaves the timers as they are; and at most one timer is
\* armed, only when refreshSec > 0, with the current refreshSec as period.
C7_TimerInv ==
  /\ Cardinality(timers) <= 1
  /\ timers # {} => refreshSec > 0
  /\ \A t \in timers : t.period = refreshSec

C7_IdempotentReconfiguration ==
  /\ []C7_TimerInv
  /\ [][last'.op = "same" => UNCHANGED <<cycles, timers, effs, shown>>]_vars
  /\ [][(phase = "mounted" /\ phase' = "mounted" /\ days' = days /\ refreshSec' = refreshSec)
        => (/\ timers' = timers /\ effs' = effs
            /\ \A c \in (Len(cycles) + 1)..Len(cycles') : cycles'[c].bg
            /\ \A c \in 1..Len(cycles) : cycles'[c].aborted = cycles[c].aborted)]_vars

\* The current value was selected again while a cycle was in flight and the
\* timer armed.
C7_Witness ==
  /\ last.op = "same"
  /\ timers # {}
  /\ \E c \in 1..Len(cycles) : ~cycles[c].done

\* C8: while refreshSec is 0 no timer is armed, no background cycle is issued
\* and the completion of a background cycle issued earlier changes nothing;
\* the change to 0 itself issues one foreground cycle and no other.
C8_RefreshDisabled ==
  /\ [](refreshSec = 0 => timers = {})
  /\ [][(refreshSec' = 0)
        => (/\ \A c \in (Len(cycles) + 1)..Len(cycles') : ~cycles'[c].bg
            /\ (last'.op = "settle" /\ cycles[last'.cyc].bg) => UNCHANGED shown
            /\ (refreshSec > 0 /\ urlSet) => Len(cycles') = Len(cycles) + 1)]_vars

\* Auto-refresh was switched off with a background cycle in flight, which then
\* completed.
C8_Witness ==
  /\ refreshSec = 0 /\ urlSet
  /\ last.op = "settle" /\ cycles[last.cyc].bg /\ last.out # "cancelled"

\* C9: a cycle that ends with an AbortError changes neither the error nor
\* the view state, and the status does not become Error by it.
C9_SilentCancellation ==
  [][(last'.op = "settle" /\ last'.out = "cancelled")
     => (/\ error' = error /\ view' = view /\ lastUpdated' = lastUpdated
         /\ LoadStatus' = "Error" => LoadStatus = "Error")]_vars

\* An aborted cycle ended with an AbortError.
C9_Witness ==
  /\ last.op = "settle" /\ last.out = "cancelled"
  /\ cycles[last.cyc].aborted /\ ~Live(last.cyc)

\* C10 (as claimed): every timer belongs to the current effect, and every
\* cycle still in flight whose effect was cleaned up has an aborted signal.
C10_NoOrphanedWork ==
  /\ \A t \in timers : effs[t.eff].mounted
  /\ \A c \in 1..Len(cycles) : (~cycles[c].done /\ ~Live(c)) => cycles[c].aborted

\* C11 (as claimed): when every request of a cycle of the current effect
\* succeeds and the body of a list endpoint lacks the expected array, the
\* cycle commits the empty list for that field and ends Ready.
C11_EmptyArrayDefaulting ==
  [][\A c \in 1..Len(cycles), r \in Responses :
       (/\ Settle(c, r, Fulfilled) /\ Live(c)
        /\ \E k \in ListEndpoints : r[k] \in {"empty", "null"})
       => (/\ LoadStatus' = "Ready"
           /\ \A k \in ListEndpoints :
                r[k] \in {"empty", "null"} => view'[k] = [src |-> c, val |-> "empty"])]_vars

\* C12 (as claimed): at most one cycle is in flight with a signal that has
\* not been aborted.
C12_NewCycleCancelsPredecessor ==
  Cardinality({c \in 1..Len(cycles) : ~cycles[c].done /\ ~cycles[c].aborted}) <= 1

\* C13 (as claimed): the completion of a cycle after which another cycle has
\* been issued neither sets the error nor clears the loading flag.
C13_SupersededKeepsStatus ==
  [][(last'.op = "settle" /\ last'.cyc < Len(cycles))
     => (error' = error /\ loading' = loading)]_vars

\* C14: with a base URL configured, the mount and every change of days or
\* refreshSec issue exactly one cycle, a foreground cycle of a new effect run
\* that fetches with the new value of days, and leave the loading flag set and
\* the error cleared.
C14_ForegroundOnChange ==
  [][(/\ urlSet
      /\ \/ (phase = "new" /\ phase' = "mounted")
         \/ days' # days
         \/ refreshSec' # refreshSec)
     => (/\ Len(cycles') = Len(cycles) + 1
         /\ \A c \in 1..Len(cycles) : cycles'[c].done = cycles[c].done
         /\ LET n == cycles'[Len(cycles')]
            IN  /\ ~n.bg /\ ~n.done /\ ~n.aborted
                /\ n.eff = Len(effs') /\ Len(effs') = Len(effs) + 1
                /\ effs'[n.eff].mounted /\ effs'[n.eff].days = days'
                /\ effs'[n.eff].controller = Len(cycles')
         /\ loading' /\ error' = NoError /\ LoadStatus' = "Loading")]_vars

\* A parameter was changed after a commit: the new foreground cycle is in
\* flight under the loader.
C14_Witness ==
  /\ urlSet /\ phase = "mounted" /\ Len(effs) >= 2
  /\ lastUpdated # 0 /\ loading /\ error = NoError
  /\ LET n == cycles[Len(cycles)]
     IN  ~n.bg /\ ~n.done /\ n.eff = Len(effs) /\ effs[n.eff].days = days

\* C15: while the component is mounted the loading flag is set only if the
\* foreground cycle of the current effect run is still in flight, and the
\* issue of a background cycle changes neither the flag nor the error.
C15_LoadingInv ==
  (phase = "mounted" /\ loading)
  => (/\ urlSet /\ effs # <<>>
      /\ LET f == cycles[effs[Len(effs)].controller]
         IN  ~f.bg /\ ~f.done /\ f.eff = Len(effs))

C15_LoadingOnlyForeground ==
  /\ []C15_LoadingInv
  /\ [][(Len(cycles') = Len(cycles) + 1 /\ cycles'[Len(cycles')].bg)
        => (loading' = loading /\ error' = error)]_vars

\* The timer issued a background cycle while the foreground cycle was still
\* loading.
C15_Witness ==
  /\ phase = "mounted" /\ loading /\ last = NoEvent
  /\ Len(cycles) >= 2
  /\ cycles[Len(cycles)].bg /\ ~cycles[Len(cycles)].done
  /\ cycles[Len(cycles)].eff = Len(effs)

\* C16: without a base URL, once the effect has run and after any parameter
\* changes, the error is the configuration message, loading is off, no cycle
\* has been issued and no timer is armed.
C16_ConfigurationMissing ==
  (~urlSet /\ phase # "new")
  => (/\ error = "Configura VITE_ANALYTICS_URL" /\ ~loading
      /\ LoadStatus = "Error"
      /\ cycles = <<>> /\ effs = <<>> /\ timers = {})

\* Both parameters were changed with no base URL configured.
C16_Witness ==
  /\ ~urlSet /\ phase = "mounted"
  /\ days # 30 /\ refreshSec # 15

\* C17 (as claimed): a step issues at most one cycle and the completion of a
\* cycle issues none; and the status leaves Error only when the most recently
\* issued cycle commits its results, or when a parameter change starts a new
\* foreground cycle.
C17_RecoveryByNextCycle ==
  /\ [][/\ Len(cycles') <= Len(cycles) + 1
        /\ last'.op = "settle" => Len(cycles') = Len(cycles)]_vars
  /\ [][(LoadStatus = "Error" /\ LoadStatus' # "Error")
        => \/ /\ last'.op = "settle" /\ last'.out = "committed"
              /\ last'.cyc = Len(cycles) /\ Live(last'.cyc)
              /\ error' = NoError /\ \A k \in Endpoints : view'[k].src = last'.cyc
           \/ /\ days' # days \/ refreshSec' # refreshSec
              /\ Len(cycles') = Len(cycles) + 1 /\ ~cycles'[Len(cycles')].bg]_vars

\* The days of the request parameters of cycle c.
CycleDays(c) == effs[cycles[c].eff].days

C19_LoadingClears == loading ~> (~loading \/ phase = "unmounted")

\* The failure of the foreground cycle of the current effect cleared the
\* loading flag.
C19_Witness ==
  /\ phase = "mounted" /\ urlSet /\ ~loading
  /\ last.op = "settle" /\ last.out = "failed"
  /\ ~cycles[last.cyc].bg /\ Live(last.cyc)
  /\ LoadStatus = "Error"

====
